---- MODULE Spec2Model ----
(***************************************************************************)
(* Staged execution engine of the data-refinery pipeline.                  *)
(*                                                                         *)
(*   orchestrator.py     blocking/CLI driver (Orchestrator)                *)
(*   pipeline_runner.py  event-driven/server driver (PipelineRunner)       *)
(*   regolo_client.py    generator client (RegoloClient.call_with_retry)   *)
(*   agents/*.py         the four stage agents (process)                   *)
(*   state_manager.py    PipelineState and the checkpoint store            *)
(*                                                                         *)
(* The external completion service, the file system and the OCR step are   *)
(* the environment: every exchange and every write draws its outcome       *)
(* nondeterministically.                                                   *)
(***************************************************************************)
EXTENDS Integers, Sequences, FiniteSets, TLC

\* ------------------------------------------------------------------ config
MAX_RETRIES == 3
INITIAL_BACKOFF == 2

AGENT_ORDER == <<"structuring", "normalization", "layout", "human_review">>

\* CHECKPOINT_FILES, indexed by the stage that writes the file; RAW_FILE is
\* the entry "raw" written by initialize.
RAW_FILE == "raw_text.json"
CHECKPOINT_FILES ==
    <<"structured_v0.json", "structured_v1_normalized.json",
      "db_ready.json", "review_report.json">>

\* PipelineState field holding the output of each stage.
OUTPUT_FIELD ==
    <<"structured_v0", "structured_v1", "db_ready", "review_report">>

\* ------------------------------------------------------------------ bounds
\* distinct payloads a generator reply can carry
MaxPayload == 1
\* largest max_retries argument handed to call_with_retry on its own
MaxRetriesArg == 5
\* stage attempts of one run that may end in the except clause of
\* _execute_agent (a write that fails, a reply whose summary fields have
\* an unexpected shape)
MaxFaults == 1
\* sends of a run's websocket that may fail
MaxLost == 2
\* members of the JSON objects texts are made from
MaxMembers == 1
\* calls of load_from_checkpoint that a run may follow
MaxLoads == 1

NumStages == Len(AGENT_ORDER)
Stages == 1..NumStages

\* ------------------------------------------------------------- data values
\* A Python dict as far as the drivers look at it: emptiness, the success
\* marker, the part handed to the next stage (data, 0 when the key is
\* missing) and whether the fields the drivers summarise have the expected
\* shape (fmt).
EmptyDict == [empty |-> TRUE, success |-> FALSE, data |-> 0, fmt |-> TRUE]

\* The document text read by initialize / run.
RAW_TEXT == 1

\* What one HTTP exchange can do.
Statuses == {"net", "s401", "s429", "s500", "empty_body", "ok"}

\* What the reply of a successful exchange holds.
ContentKinds ==
    {"badenvelope", "nocontent", "garbage", "list", "emptyobj",
     "repairable", "object"}
Markers == {"absent", "false", "true"}

NoReply == [kind |-> "none", data |-> 0, fmt |-> TRUE, marker |-> "absent"]

Replies ==
    {[kind |-> k, data |-> 0, fmt |-> TRUE, marker |-> "absent"] :
        k \in {"badenvelope", "nocontent", "garbage", "list", "emptyobj"}}
    \cup [kind : {"repairable"}, data : 1..MaxPayload, fmt : BOOLEAN,
          marker : {"absent"}]
    \cup [kind : {"object"}, data : 1..MaxPayload, fmt : BOOLEAN,
          marker : Markers]

Outcomes ==
    {[status |-> s, reply |-> NoReply] : s \in Statuses \ {"ok"}}
    \cup [status : {"ok"}, reply : Replies]

RECURSIVE Pow2(_)
Pow2(n) == IF n = 0 THEN 1 ELSE 2 * Pow2(n - 1)

VARIABLES
    mode,          \* "cli" | "server" | "client": which driver runs
    storage,       \* "dir" | "none": Orchestrator(output_dir) given or None
    pc,            \* position of the driver
    result,        \* "none" | "true" | "false" | "raised": the run's outcome
    stage,         \* index in AGENT_ORDER of the for-loop of run_pipeline
    attempt,       \* loop variable of _execute_agent
    state,         \* PipelineState
    checkpoints,   \* files of the checkpoints area: name -> snapshot
    final,         \* names of the files written in the final area
    events,        \* events emitted by PipelineRunner.emit, in order
    max_retries,   \* call_with_retry: effective attempt budget
    cattempt,      \* call_with_retry: loop variable
    sleeps,        \* call_with_retry: delays slept during the current call
    callret,       \* call_with_retry: the returned pair
    dsleeps,       \* delays slept by the driver for the current stage
    agent_input,   \* input handed to the agent at its latest invocation
    running,       \* stages whose agent is executing
    called,        \* stages whose agent was invoked at least once
    invoked,       \* invocations of the current stage's agent
    exch,          \* exchanges issued for the current stage
    nfail,         \* network failures met by the current call_with_retry
    ncalls,        \* exchanges issued by the current call_with_retry
    netonly,       \* every exchange of the current stage was a network failure
    last,          \* outcome of the latest exchange
    faults,        \* stage attempts that ended in the except clause
    snapshots,     \* file name -> the state save_checkpoint was handed
    loaded,        \* calls of load_from_checkpoint: file and returned value
    announced,     \* backoffs the CLI driver announced for the current stage
    websocket,     \* PipelineRunner: whether set_websocket gave an observer
    senderrors,    \* PipelineRunner.emit: sends that failed and were logged
    ocr,           \* run_pipeline.main: what became of the OCR step
    exit_status,   \* run_pipeline.main: <<>> while running, then <<status>>
    content,       \* the content text an agent extracts JSON from
    origin,        \* the document the text was made from, and how
    simple,        \* what _extract_json followed by json.loads gave
    repair         \* what extract_json_from_text gave

vars ==
    <<mode, storage, pc, result, stage, attempt, state, checkpoints, final,
      events, max_retries, cattempt, sleeps, callret, dsleeps, agent_input,
      running, called, invoked, exch, nfail, ncalls, netonly, last,
      faults, snapshots, loaded, announced, websocket, senderrors,
      ocr, exit_status, content, origin, simple, repair>>

clientVars == <<max_retries, cattempt, sleeps, callret, nfail, ncalls, last>>
driverVars ==
    <<mode, storage, result, stage, attempt, state, checkpoints, final,
      events, dsleeps, agent_input, running, called, invoked, faults,
      snapshots, loaded, announced, websocket, senderrors,
      ocr, exit_status, content, origin, simple, repair>>
textVars == <<content, origin, simple, repair>>

\* ------------------------------------------------------- state_manager.py
\* PipelineState(): the dataclass defaults.  Of the two progress markers
\* only current_agent is kept: retry_count is written (attempt + 1) and
\* never read, and follows from the variable attempt.
PipelineState ==
    [current_agent |-> "init", errors |-> <<>>,
     completed_agents |-> <<>>, raw_text |-> 0,
     structured_v0 |-> EmptyDict, structured_v1 |-> EmptyDict,
     db_ready |-> EmptyDict, review_report |-> EmptyDict]

\* fields(PipelineState), as far as they are kept here
Fields == DOMAIN PipelineState

\* PipelineState.to_dict: asdict, one entry per field.
to_dict(s) == [f \in Fields |-> s[f]]

\* json.dump / json.load of such a dict: every value of a PipelineState is
\* a string, a list of strings or a dict that json.loads produced, so each
\* entry is written as the JSON value of its type and read back from it.
JsonType(f) ==
    IF f \in {"errors", "completed_agents"} THEN "array"
    ELSE IF f \in {"current_agent", "raw_text"} THEN "string"
    ELSE "object"
json_dump(d) == [f \in DOMAIN d |-> [json |-> JsonType(f), v |-> d[f]]]
json_load(text) == [f \in DOMAIN text |-> text[f].v]

\* variant: the diagnostics are not restored
from_dict_noerrors(data) ==
    [f \in Fields |->
        IF f \in DOMAIN data /\ f # "errors" THEN data[f]
        ELSE PipelineState[f]]

\* PipelineState.from_dict: cls(), then setattr for every key of data that
\* is an attribute.
from_dict(data) ==
    [f \in Fields |->
        IF f \in DOMAIN data THEN data[f] ELSE PipelineState[f]]

\* StateManager.save_checkpoint: a no-op without a storage root, otherwise
\* the file of that name is (over)written with the serialized state.
save_checkpoint(files, s, filename) ==
    IF storage = "none" THEN files
    ELSE (filename :> json_dump(to_dict(s))) @@ files

\* What save_checkpoint was handed, by file name (what the files are
\* compared with).
Snapshot(snaps, s, filename) ==
    IF storage = "none" THEN snaps ELSE (filename :> s) @@ snaps

\* variant: a missing file loads as a fresh state
load_checkpoint_fresh(files, filename) ==
    IF storage = "none" THEN <<>>
    ELSE IF filename \in DOMAIN files
    THEN <<from_dict(json_load(files[filename]))>>
    ELSE <<PipelineState>>

\* StateManager.load_checkpoint: Optional[PipelineState], <<>> for None.
load_checkpoint(files, filename) ==
    IF storage = "none" THEN <<>>
    ELSE IF filename \in DOMAIN files
    THEN <<from_dict(json_load(files[filename]))>>
    ELSE <<>>

\* StateManager.save_final / save_markdown_report
save_final(files, filename) ==
    IF storage = "none" THEN files ELSE files \cup {filename}


FINAL_FILES == <<"pipeline_state.json", "db_ready.json", "review_report.json">>
REPORT_FILE == "review_report.md"

\* f"failed_{agent_name}.json"
FailedFile(k) == "failed_" \o AGENT_ORDER[k] \o ".json"

\* ----------------------------------------------------------- agents/*.py
\* {"error": ..., "success": False}
Failure == [empty |-> FALSE, success |-> FALSE, data |-> 0, fmt |-> TRUE]

\* result = json.loads(...); result["success"] = True
Parsed(reply) ==
    [empty |-> FALSE, success |-> TRUE, data |-> reply.data, fmt |-> reply.fmt]

\* _extract_json followed by json.loads (structuring, normalization,
\* human_review): a fence is stripped, nothing is repaired.
SimplePolicy(reply) ==
    IF reply.kind \in {"object", "emptyobj"} THEN Parsed(reply) ELSE Failure

\* extract_json_from_text followed by "if not result" (layout): repairs, and
\* takes the empty object for the unrecoverable sentinel.
RepairPolicy(reply) ==
    IF reply.kind \in {"object", "repairable"} THEN Parsed(reply) ELSE Failure

\* <Agent>.process has no try around call_with_retry: an exception leaving
\* the call leaves the agent.
AgentRaises(ret) == ret.raised

\* <Agent>.process after call_with_retry returned ret.
process(k, ret) ==
    IF ret.raised \/ ret.error # "none" THEN Failure
    ELSE IF ret.response.kind \in {"badenvelope", "nocontent"} THEN Failure
    ELSE IF AGENT_ORDER[k] = "layout" THEN RepairPolicy(ret.response)
    ELSE SimplePolicy(ret.response)

\* variant: the layout agent is handed the structuring output
StageInput_stale(s, k) ==
    IF k = 1 THEN [whole |-> FALSE, v |-> s.raw_text]
    ELSE IF k \in {2, 3} THEN [whole |-> FALSE, v |-> s.structured_v0.data]
    ELSE [whole |-> TRUE, v |-> s.db_ready.data]

\* The argument each driver hands to the agent of stage k.
StageInput(s, k) ==
    IF k = 1 THEN [whole |-> FALSE, v |-> s.raw_text]
    ELSE IF k = 2 THEN [whole |-> FALSE, v |-> s.structured_v0.data]
    ELSE IF k = 3 THEN [whole |-> FALSE, v |-> s.structured_v1.data]
    ELSE [whole |-> TRUE, v |-> s.db_ready.data]

\* ------------------------------------------------------- regolo_client.py
NoRet == [response |-> NoReply, error |-> "none", raised |-> FALSE]
NoOutcome == [status |-> "none", reply |-> NoReply]

\* variant: the delay grows by INITIAL_BACKOFF each time
Backoff_linear(a) == INITIAL_BACKOFF * (a + 1)

\* variant: the exponent is the number of the attempt that follows
Backoff_shifted(a) == INITIAL_BACKOFF * Pow2(a + 1)

\* backoff = INITIAL_BACKOFF * (2 ** attempt)
Backoff(a) == INITIAL_BACKOFF * Pow2(a)

\* variant: the network failure is re-raised as a plain Exception
ExceptionOf_generic(status) ==
    IF status = "ok" THEN "none" ELSE "Exception"

\* _make_request: requests.post raises a RequestException on a network
\* failure; the status checks raise a plain Exception for 401, 429, any
\* other status >= 400 and an empty body.
ExceptionOf(status) ==
    IF status = "ok" THEN "none"
    ELSE IF status = "net" THEN "RequestException"
    ELSE "Exception"

\* variant: no clause retries
Retryable_never(exc) == FALSE

\* call_with_retry, "except requests.exceptions.RequestException": the only
\* clause that retries.
Retryable(exc) == exc = "RequestException"

\* variant: the catch-all clause is missing
Caught_network_only(exc) == exc = "RequestException"

\* call_with_retry, "except Exception": whatever the first clause does not
\* take is turned into (None, str(e)).
Caught(exc) == exc \in {"RequestException", "Exception"}

\* max_retries = max_retries or MAX_RETRIES
EffectiveRetries(arg) == IF arg = 0 THEN MAX_RETRIES ELSE arg

\* Entry of call_with_retry (the agents pass no max_retries).
EnterCall(arg) ==
    /\ max_retries' = EffectiveRetries(arg)
    /\ cattempt' = 0
    /\ sleeps' = <<>>
    /\ callret' = NoRet
    /\ nfail' = 0
    /\ ncalls' = 0

\* The caller has consumed the returned pair: the locals of the call are gone.
LeaveCall ==
    /\ cattempt' = 0
    /\ sleeps' = <<>>
    /\ callret' = NoRet
    /\ nfail' = 0
    /\ ncalls' = 0
    /\ last' = NoOutcome
    /\ UNCHANGED max_retries

\* One iteration of the for-loop of call_with_retry: one exchange and what
\* the try/except makes of it.  (The "Max retries exceeded" return after the
\* loop needs a budget below 1, which no caller passes.)
call_with_retry(o) ==
    /\ pc = "call"
    /\ (o.reply.fmt \/ faults < MaxFaults)
    /\ ncalls' = ncalls + 1
    /\ exch' = exch + 1
    /\ last' = o
    /\ netonly' = (netonly /\ o.status = "net")
    /\ nfail' = IF o.status = "net" THEN nfail + 1 ELSE nfail
    /\ LET exc == ExceptionOf(o.status)
       IN  IF exc = "none"
           THEN \* return response, None
                /\ callret' = [response |-> o.reply, error |-> "none",
                               raised |-> FALSE]
                /\ pc' = "returned"
                /\ UNCHANGED <<cattempt, sleeps>>
           ELSE IF Retryable(exc) /\ cattempt < max_retries - 1
           THEN \* time.sleep(backoff), next iteration
                /\ sleeps' = Append(sleeps, Backoff(cattempt))
                /\ cattempt' = cattempt + 1
                /\ UNCHANGED <<callret, pc>>
           ELSE \* return None, str(e) -- or the exception leaves the call
                /\ callret' = [response |-> NoReply,
                               error |-> IF Caught(exc) THEN o.status
                                         ELSE "none",
                               raised |-> ~Caught(exc)]
                /\ pc' = "returned"
                /\ UNCHANGED <<cattempt, sleeps>>
    /\ UNCHANGED <<max_retries>>
    /\ UNCHANGED driverVars

\* The driver calls the agent of stage k on the state s: the agent starts
\* executing and enters call_with_retry with the default budget.
InvokeAgent(s, k, n) ==
    /\ agent_input' = StageInput(s, k)
    /\ running' = running \cup {k}
    /\ called' = called \cup {k}
    /\ invoked' = n
    /\ EnterCall(0)
    /\ pc' = "call"

\* --------------------------------------------------------- orchestrator.py
\* variant: the success marker is not looked at
Validated_any(res) == TRUE

\* "if result.get("success")" (also "if not result.get("success")" in
\* PipelineRunner.run)
Validated(res) == res.success

\* "for attempt in range(max_retries)": a further iteration follows a.
MoreAttempts(a) == a < MAX_RETRIES - 1

\* _execute_agent: backoff = 2 * (2 ** attempt)
StageBackoff(a) == 2 * Pow2(a)

\* variant: the stage name is not recorded
RecordCompleted_skip(s, k) == s

\* variant: the diagnostics are cleared when a stage completes
RecordCompleted_reset(s, k) ==
    [s EXCEPT !.completed_agents = Append(@, AGENT_ORDER[k]),
              !.errors = <<>>]

\* run_pipeline: self.state.completed_agents.append(agent_name)
RecordCompleted(s, k) ==
    [s EXCEPT !.completed_agents = Append(@, AGENT_ORDER[k])]

ErrException(k) == [agent |-> AGENT_ORDER[k], kind |-> "exception"]
ErrFailed(k) == [agent |-> AGENT_ORDER[k], kind |-> "failed"]
ErrRead == [agent |-> "init", kind |-> "read"]

\* Orchestrator.initialize: readok is whether the source file can be read,
\* wok whether the raw checkpoint can be written.
initialize(readok, wok) ==
    /\ mode = "cli"
    /\ pc = "init"
    /\ LET s0 == [state EXCEPT !.current_agent = "init",
                               !.errors = <<>>, !.completed_agents = <<>>]
           s1 == [s0 EXCEPT !.raw_text = RAW_TEXT,
                            !.current_agent = "structuring"]
       IN  IF ~readok
           THEN /\ state' = [s0 EXCEPT !.errors = Append(@, ErrRead)]
                /\ pc' = "init_failed"
                /\ UNCHANGED <<checkpoints, snapshots, stage>>
           ELSE IF storage = "dir" /\ ~wok
           THEN /\ state' = s1
                /\ pc' = "crashed"
                /\ UNCHANGED <<checkpoints, snapshots, stage>>
           ELSE /\ state' = s1
                /\ checkpoints' =
                       save_checkpoint(checkpoints, s1, RAW_FILE)
                /\ snapshots' = Snapshot(snapshots, s1, RAW_FILE)
                /\ stage' = 1
                /\ pc' = "loop"
    /\ UNCHANGED <<loaded, faults, mode, storage,
                   result, attempt, final, events,
                   dsleeps,
                   agent_input, running, called, invoked, exch, netonly>>
    /\ UNCHANGED clientVars
    /\ UNCHANGED announced
    /\ UNCHANGED <<websocket, senderrors, ocr, exit_status>>
    /\ UNCHANGED textVars

\* run_pipeline, head of the for-loop: the next agent of AGENT_ORDER.
run_pipeline_next ==
    /\ mode = "cli"
    /\ pc = "loop"
    /\ stage <= NumStages
    /\ state' = [state EXCEPT !.current_agent = AGENT_ORDER[stage]]
    /\ attempt' = 0
    /\ invoked' = 0
    /\ exch' = 0
    /\ netonly' = TRUE
    /\ dsleeps' = <<>>
    /\ pc' = "attempt"
    /\ UNCHANGED <<loaded, faults, mode, storage, result, stage, checkpoints,
                   snapshots,
                   final, events,
                   agent_input, running, called>>
    /\ UNCHANGED clientVars
    /\ announced' = <<>>
    /\ UNCHANGED <<websocket, senderrors, ocr, exit_status>>
    /\ UNCHANGED textVars

\* _execute_agent, head of the for-loop: attempt number attempt + 1 calls the
\* agent of the stage with the input taken from the state.
execute_agent_attempt ==
    /\ mode = "cli"
    /\ pc = "attempt"
    /\ InvokeAgent(state, stage, invoked + 1)
    /\ UNCHANGED state
    /\ last' = last
    /\ UNCHANGED <<loaded, faults, mode, storage, result, stage, attempt,
                   checkpoints, snapshots, final,
                   events, dsleeps, exch, netonly>>
    /\ UNCHANGED announced
    /\ UNCHANGED <<websocket, senderrors, ocr, exit_status>>
    /\ UNCHANGED textVars

\* _execute_agent, rest of the loop body once the agent returned: the
\* success branch (state write, checkpoint, report, summary), the except
\* clause and the retry test.  wok / mok: whether the checkpoint and the
\* markdown report can be written.
execute_agent_result(wok, mok) ==
    /\ mode = "cli"
    /\ pc = "returned"
    /\ ((wok /\ mok) \/ faults < MaxFaults)
    /\ LET res == process(stage, callret)
           valid == ~AgentRaises(callret) /\ Validated(res)
           s1 == IF valid
                 THEN [state EXCEPT ![OUTPUT_FIELD[stage]] = res]
                 ELSE state
           saved == valid /\ (storage = "none" \/ wok)
           mdgen == saved /\ AGENT_ORDER[stage] = "human_review" /\ res.fmt
           mdsaved == mdgen /\ (storage = "none" \/ mok)
           raised ==
               \/ AgentRaises(callret)
               \/ valid /\
                  (\/ ~saved
                   \/ ~res.fmt
                   \/ (AGENT_ORDER[stage] = "human_review" /\ ~mdsaved))
           s2 == IF raised
                 THEN [s1 EXCEPT !.errors = Append(@, ErrException(stage))]
                 ELSE s1
       IN  /\ checkpoints' =
                 IF saved
                 THEN save_checkpoint(checkpoints, s1, CHECKPOINT_FILES[stage])
                 ELSE checkpoints
           /\ snapshots' =
                 IF saved
                 THEN Snapshot(snapshots, s1, CHECKPOINT_FILES[stage])
                 ELSE snapshots
           /\ final' = IF mdsaved THEN save_final(final, REPORT_FILE)
                       ELSE final
           /\ faults' = IF raised THEN faults + 1 ELSE faults
           /\ IF valid /\ ~raised
              THEN \* return True; run_pipeline appends the stage name
                   /\ state' = RecordCompleted(s2, stage)
                   /\ stage' = stage + 1
                   /\ pc' = "loop"
                   /\ exch' = 0
                   /\ netonly' = TRUE
                   /\ UNCHANGED <<attempt, announced>>
              ELSE IF MoreAttempts(attempt)
              THEN \* the backoff is computed and printed, then next attempt
                   /\ state' = s2
                   /\ attempt' = attempt + 1
                   /\ announced' = Append(announced, StageBackoff(attempt))
                   /\ pc' = "attempt"
                   /\ UNCHANGED <<stage, exch, netonly>>
              ELSE \* return False
                   /\ state' = s2
                   /\ pc' = "failed"
                   /\ UNCHANGED <<stage, attempt, exch, netonly, announced>>
    /\ running' = running \ {stage}
    /\ UNCHANGED <<mode, storage, result, events, dsleeps, agent_input,
                   called, invoked, loaded>>
    /\ LeaveCall
    /\ UNCHANGED <<websocket, senderrors, ocr, exit_status>>
    /\ UNCHANGED textVars

\* variant: the loop goes on to the next agent after a failure
run_pipeline_failed_continue(fok) ==
    /\ mode = "cli"
    /\ pc = "failed"
    /\ LET s1 == [state EXCEPT !.errors = Append(@, ErrFailed(stage))]
       IN  /\ state' = s1
           /\ checkpoints' =
                  IF storage = "dir" /\ ~fok THEN checkpoints
                  ELSE save_checkpoint(checkpoints, s1, FailedFile(stage))
           /\ snapshots' =
                  IF storage = "dir" /\ ~fok THEN snapshots
                  ELSE Snapshot(snapshots, s1, FailedFile(stage))
    /\ stage' = stage + 1
    /\ pc' = "loop"
    /\ UNCHANGED <<loaded, faults, mode, storage,
                   result, attempt, final, events,
                   dsleeps, agent_input, running, called, invoked, exch,
                   netonly>>
    /\ UNCHANGED clientVars
    /\ UNCHANGED announced
    /\ UNCHANGED <<websocket, senderrors, ocr, exit_status>>
    /\ UNCHANGED textVars

\* run_pipeline, "if not success": the diagnostic, the failure checkpoint
\* (fok: whether it can be written) and return False.
run_pipeline_failed(fok) ==
    /\ mode = "cli"
    /\ pc = "failed"
    /\ LET s1 == [state EXCEPT !.errors = Append(@, ErrFailed(stage))]
       IN  /\ state' = s1
           /\ IF storage = "dir" /\ ~fok
              THEN /\ result' = "raised"
                   /\ UNCHANGED <<checkpoints, snapshots>>
              ELSE /\ result' = "false"
                   /\ checkpoints' =
                          save_checkpoint(checkpoints, s1, FailedFile(stage))
                   /\ snapshots' = Snapshot(snapshots, s1, FailedFile(stage))
    /\ pc' = "done"
    /\ UNCHANGED <<loaded, faults, mode, storage,
                   stage, attempt, final, events,
                   dsleeps,
                   agent_input, running, called, invoked, exch, netonly>>
    /\ UNCHANGED clientVars
    /\ UNCHANGED announced
    /\ UNCHANGED <<websocket, senderrors, ocr, exit_status>>
    /\ UNCHANGED textVars

\* save_final of the first n names of FINAL_FILES
SaveFinals(files, n) ==
    IF storage = "none" THEN files
    ELSE files \cup {FINAL_FILES[i] : i \in 1..n}

\* run_pipeline after the loop: _save_final_outputs (nok of its three writes
\* succeed; its last line evaluates output_dir / 'final'), _print_summary
\* and return True.
run_pipeline_finish(nok) ==
    /\ mode = "cli"
    /\ pc = "loop"
    /\ stage > NumStages
    /\ IF storage = "none"
       THEN /\ result' = "raised"
            /\ UNCHANGED final
       ELSE /\ final' = SaveFinals(final, nok)
            /\ result' = IF nok = Len(FINAL_FILES) THEN "true" ELSE "raised"
    /\ pc' = "done"
    /\ UNCHANGED <<loaded, faults, mode, storage, stage, attempt, state,
                   checkpoints, snapshots, events,
                   dsleeps, agent_input, running, called, invoked, exch,
                   netonly>>
    /\ UNCHANGED clientVars
    /\ UNCHANGED announced
    /\ UNCHANGED <<websocket, senderrors, ocr, exit_status>>
    /\ UNCHANGED textVars

\* The names a checkpoint file of a run can have.
CheckpointNames ==
    {RAW_FILE} \cup {CHECKPOINT_FILES[k] : k \in Stages}
               \cup {FailedFile(k) : k \in Stages}

\* Orchestrator.load_from_checkpoint, called on a driver before initialize
\* or after run_pipeline returned: "if state" replaces self.state, otherwise
\* nothing is touched and False is returned.  The driver is then set up for
\* another run: no outcome yet, no agent called yet.
load_from_checkpoint(checkpoint_file) ==
    /\ mode = "cli"
    /\ pc \in {"init", "done"}
    /\ LET got == load_checkpoint(checkpoints, checkpoint_file)
       IN  /\ state' = IF got # <<>> THEN got[1] ELSE state
           /\ loaded' = Append(loaded, [file |-> checkpoint_file,
                                        ret |-> got # <<>>])
    /\ pc' = "loaded"
    /\ result' = "none"
    /\ called' = {}
    /\ UNCHANGED <<faults, mode, storage, stage, attempt,
                   checkpoints, snapshots, final, events, dsleeps,
                   agent_input, running, invoked, exch, netonly>>
    /\ UNCHANGED clientVars
    /\ UNCHANGED announced
    /\ UNCHANGED <<websocket, senderrors, ocr, exit_status>>
    /\ UNCHANGED textVars

\* ------------------------------------------------------ pipeline_runner.py
Ev(e, step) == [event |-> e, step |-> step]

\* variant: emit has no except clause around send_json
EmitCaught_missing == FALSE

\* emit: "try: await self.websocket.send_json(...) except Exception"
EmitCaught == TRUE

\* emit, for the n emits of one step of run, lost being the ones whose send
\* fails: nothing is sent without a websocket, a failed send is logged.
SendErrors(ws, lost, n) == IF ws THEN Cardinality(lost \cap (1..n)) ELSE 0
EmitRaises(ws, lost, n) == ~EmitCaught /\ SendErrors(ws, lost, n) > 0

\* emit("step_start", ...) followed by emit_log("Running ... Agent...")
StepStart(step) == <<Ev("step_start", step), Ev("log", step)>>
\* emit("step_complete", ...) followed by emit_log(...)
StepComplete(step) == <<Ev("step_complete", step), Ev("log", step)>>
\* variant: the except clause of run emits nothing
RunError_silent == <<>>

\* the except clause of run: emit("error", ...)
RunError == <<Ev("error", "run")>>

\* variant: the retry intervals are not announced
HandlerEvents_silent(step) ==
    <<Ev("step_error", step), Ev("complete", "failure")>>

\* _handle_agent_error: for attempt in 1..MAX_RETRIES, a retry log and a
\* sleep of the backoff while attempt < MAX_RETRIES, then step_error and
\* complete{success: False}.  The agent is not called.
\* Each sleep is kept with the number of events emitted when it started.
HandlerSleeps(n) ==
    [a \in 1..(MAX_RETRIES - 1) |-> [secs |-> Backoff(a - 1), after |-> n + a]]
HandlerEvents(step) ==
    [a \in 1..(MAX_RETRIES - 1) |-> Ev("log", "retry")]
    \o <<Ev("step_error", step), Ev("complete", "failure")>>

\* The most emits run performs between two awaits of the worker pool.
EmitsPerStep == Len(StepComplete("") \o StepStart(""))
EmitSlots == 1..EmitsPerStep
\* emit: "if self.websocket:", a send can only fail where there is one
Losses(ws) == IF ws THEN SUBSET EmitSlots ELSE {{}}

\* What a step of run that emitted the events from position n on adds to
\* the log of failed sends.
Logged(n, lost) ==
    /\ senderrors' = senderrors + SendErrors(websocket, lost, Len(events') - n)
    /\ senderrors' <= MaxLost
    /\ UNCHANGED websocket

\* run, up to the first await of the worker pool: the OCR step is started.
srv_start_flow(ws, lost) ==
    /\ mode = "server"
    /\ pc = "srv_start"
    /\ IF EmitRaises(ws, lost, Len(StepStart("ocr")))
       THEN /\ events' = events \o RunError
            /\ result' = "false"
            /\ pc' = "done"
       ELSE /\ events' = events \o StepStart("ocr")
            /\ pc' = "ocr"
            /\ UNCHANGED result
    /\ UNCHANGED <<loaded, faults, mode, storage,
                   stage, attempt, state,
                   checkpoints, snapshots,
                   final, dsleeps, agent_input, running, called, invoked,
                   exch, netonly>>
    /\ UNCHANGED clientVars
    /\ UNCHANGED announced
    /\ UNCHANGED <<ocr, exit_status>>
    /\ UNCHANGED textVars

\* run, from the return of _run_ocr_async to the dispatch of the structuring
\* agent.  o: "ok" | "fail" (a page failed or the pdf is missing) | "raise";
\* readok: whether the markdown file can be read back.
srv_ocr_done_flow(o, readok, ws, lost) ==
    /\ mode = "server"
    /\ pc = "ocr"
    /\ IF o = "fail"
       THEN /\ events' = events \o
                    <<Ev("step_error", "ocr"), Ev("complete", "failure")>>
            /\ result' = "false"
            /\ pc' = "done"
            /\ UNCHANGED <<state, stage, agent_input, running, called,
                           invoked, exch, netonly, dsleeps>>
            /\ UNCHANGED clientVars
       ELSE IF o = "raise" \/ ~readok \/ EmitRaises(ws, lost, EmitsPerStep)
       THEN /\ events' = events
                    \o (IF o = "raise" THEN <<>> ELSE StepComplete("ocr"))
                    \o RunError
            /\ result' = "false"
            /\ pc' = "done"
            /\ UNCHANGED <<state, stage, agent_input, running, called,
                           invoked, exch, netonly, dsleeps>>
            /\ UNCHANGED clientVars
       ELSE LET s1 == [state EXCEPT !.raw_text = RAW_TEXT]
            IN  /\ state' = s1
                /\ events' = events \o StepComplete("ocr")
                                    \o StepStart(AGENT_ORDER[1])
                /\ stage' = 1
                /\ exch' = 0
                /\ netonly' = TRUE
                /\ dsleeps' = <<>>
                /\ InvokeAgent(s1, 1, 1)
                /\ last' = last
                /\ UNCHANGED result
    /\ UNCHANGED <<loaded, faults, mode, storage, attempt, checkpoints,
                   snapshots, final>>
    /\ UNCHANGED announced
    /\ UNCHANGED <<ocr, exit_status>>
    /\ UNCHANGED textVars

\* run, from the return of _run_agent_async for the current stage to the
\* next await of the pool or to the return.  wok, fok, mok: whether the
\* checkpoint, the final artifact and the markdown report can be written.
srv_agent_result_flow(wok, fok, mok, ws, lost) ==
    /\ mode = "server"
    /\ pc = "returned"
    /\ LET res == process(stage, callret)
           name == AGENT_ORDER[stage]
           s1 == [state EXCEPT ![OUTPUT_FIELD[stage]] = res]
           hasfinal == name \in {"layout", "human_review"}
           finsaved == wok /\ hasfinal /\ fok
           mdsaved == finsaved /\ name = "human_review" /\ res.fmt /\ mok
           raised ==
               \/ AgentRaises(callret)
               \/ ~wok
               \/ (hasfinal /\ ~fok)
               \/ (name = "human_review" /\ ~mdsaved)
               \/ (name # "layout" /\ ~res.fmt)
               \/ EmitRaises(ws, lost, EmitsPerStep)
           failed == ~AgentRaises(callret) /\ ~Validated(res)
           fin1 == IF finsaved
                   THEN save_final(final, IF name = "layout"
                                          THEN FINAL_FILES[2]
                                          ELSE FINAL_FILES[3])
                   ELSE final
       IN  IF failed
           THEN \* _handle_agent_error, return False
                /\ events' = events \o HandlerEvents(name)
                /\ dsleeps' = dsleeps \o HandlerSleeps(Len(events))
                /\ result' = "false"
                /\ pc' = "done"
                /\ running' = running \ {stage}
                /\ UNCHANGED <<state, checkpoints, snapshots, final, stage,
                               agent_input,
                               called, invoked, exch, netonly>>
                /\ LeaveCall
           ELSE /\ state' = IF AgentRaises(callret) THEN state ELSE s1
                /\ checkpoints' =
                      IF wok /\ ~AgentRaises(callret)
                      THEN save_checkpoint(checkpoints, s1,
                                           CHECKPOINT_FILES[stage])
                      ELSE checkpoints
                /\ snapshots' =
                      IF wok /\ ~AgentRaises(callret)
                      THEN Snapshot(snapshots, s1, CHECKPOINT_FILES[stage])
                      ELSE snapshots
                /\ final' = IF AgentRaises(callret) THEN final
                            ELSE IF mdsaved THEN save_final(fin1, REPORT_FILE)
                            ELSE fin1
                /\ IF raised
                   THEN \* except Exception: emit("error"), return False
                        /\ events' = events \o RunError
                        /\ result' = "false"
                        /\ pc' = "done"
                        /\ running' = running \ {stage}
                        /\ UNCHANGED <<stage, agent_input, called, invoked,
                                       exch, netonly, dsleeps>>
                        /\ LeaveCall
                   ELSE IF stage < NumStages
                   THEN \* step_complete, then the next agent is dispatched
                        /\ events' = events \o StepComplete(name)
                                       \o StepStart(AGENT_ORDER[stage + 1])
                        /\ stage' = stage + 1
                        /\ exch' = 0
                        /\ netonly' = TRUE
                        /\ dsleeps' = <<>>
                        /\ agent_input' = StageInput(s1, stage + 1)
                        /\ running' = (running \ {stage}) \cup {stage + 1}
                        /\ called' = called \cup {stage + 1}
                        /\ invoked' = 1
                        /\ EnterCall(0)
                        /\ last' = NoOutcome
                        /\ pc' = "call"
                        /\ UNCHANGED result
                   ELSE \* complete{success: True}, return True
                        /\ events' = events \o StepComplete(name)
                               \o <<Ev("complete", "success"),
                                    Ev("log", "done")>>
                        /\ result' = "true"
                        /\ pc' = "done"
                        /\ running' = running \ {stage}
                        /\ UNCHANGED <<stage, agent_input, called, invoked,
                                       exch, netonly, dsleeps>>
                        /\ LeaveCall
    /\ UNCHANGED <<loaded, faults, mode, storage, attempt>>
    /\ UNCHANGED announced
    /\ UNCHANGED <<ocr, exit_status>>
    /\ UNCHANGED textVars

\* The three steps of run with the sends of this run's websocket.
srv_start(lost) ==
    /\ srv_start_flow(websocket, lost)
    /\ Logged(Len(events), lost)

srv_ocr_done(o, readok, lost) ==
    /\ srv_ocr_done_flow(o, readok, websocket, lost)
    /\ Logged(Len(events), lost)

srv_agent_result(wok, fok, mok, lost) ==
    /\ srv_agent_result_flow(wok, fok, mok, websocket, lost)
    /\ Logged(Len(events), lost)

\* ------------------------------------------------ agents: JSON extraction
\* A text is a sequence of characters.  The characters the texts below are
\* made of: with them a JSON document holds objects, arrays, strings
\* without escapes and integers, and no literal can be spelled.
WS == {" ", "\n"}
Digits == {"1"}
Letters == {"a", "b", "j", "s", "o", "n"}
\* the grave accent, a character no string of this module can hold
TICK == "grave"
Alphabet ==
    WS \cup Digits \cup Letters
       \cup {"{", "}", "[", "]", "\"", "'", ":", ",", "/", "*", TICK}

\* t[i..j], empty when j < i
Slice(t, i, j) == IF j < i THEN <<>> ELSE SubSeq(t, i, j)
\* t[i:] of Python, i counted from 1
From(t, i) == Slice(t, i, Len(t))

\* str.startswith, str.endswith
startswith(t, p) == Len(p) <= Len(t) /\ Slice(t, 1, Len(p)) = p
endswith(t, p) ==
    Len(p) <= Len(t) /\ Slice(t, Len(t) - Len(p) + 1, Len(t)) = p
\* whether p is found in t at position i
At(t, i, p) == i + Len(p) - 1 <= Len(t) /\ Slice(t, i, i + Len(p) - 1) = p

\* the first position from i on that holds no whitespace (\s*)
RECURSIVE SkipWs(_, _)
SkipWs(t, i) ==
    IF i <= Len(t) /\ t[i] \in WS THEN SkipWs(t, i + 1) ELSE i

\* the last position up to j that holds no whitespace
RECURSIVE SkipWsBack(_, _)
SkipWsBack(t, j) ==
    IF j >= 1 /\ t[j] \in WS THEN SkipWsBack(t, j - 1) ELSE j

\* str.strip
strip(t) == Slice(t, SkipWs(t, 1), SkipWsBack(t, Len(t)))

\* the first position from i on where p is found, 0 if there is none
RECURSIVE Find(_, _, _)
Find(t, p, i) ==
    IF i + Len(p) - 1 > Len(t) THEN 0
    ELSE IF At(t, i, p) THEN i
    ELSE Find(t, p, i + 1)

\* the last position where p is found, 0 if there is none
RECURSIVE FindLast(_, _, _)
FindLast(t, p, i) ==
    IF i < 1 THEN 0
    ELSE IF At(t, i, p) THEN i
    ELSE FindLast(t, p, i - 1)

\* the end of the run of digits that starts at i
RECURSIVE SkipDigits(_, _)
SkipDigits(t, i) ==
    IF i <= Len(t) /\ t[i] \in Digits THEN SkipDigits(t, i + 1) ELSE i

\* json.loads.  A parsed value is kept as its text without the whitespace
\* between tokens: two documents of distinct keys in the same order parse
\* to equal values exactly when these texts are equal.
NoParse == [ok |-> FALSE, next |-> 0, v |-> <<>>]
ParsedTo(n, val) == [ok |-> TRUE, next |-> n, v |-> val]

RECURSIVE ParseValue(_, _), ParseMembers(_, _), ParseElements(_, _)
\* the value that starts at i
ParseValue(t, i) ==
    IF i > Len(t) THEN NoParse
    ELSE IF t[i] = "{"
    THEN LET j == SkipWs(t, i + 1)
         IN  IF j <= Len(t) /\ t[j] = "}"
             THEN ParsedTo(j + 1, <<"{", "}">>)
             ELSE LET m == ParseMembers(t, j)
                  IN  IF m.ok
                      THEN ParsedTo(m.next, <<"{">> \o m.v \o <<"}">>)
                      ELSE NoParse
    ELSE IF t[i] = "["
    THEN LET j == SkipWs(t, i + 1)
         IN  IF j <= Len(t) /\ t[j] = "]"
             THEN ParsedTo(j + 1, <<"[", "]">>)
             ELSE LET m == ParseElements(t, j)
                  IN  IF m.ok
                      THEN ParsedTo(m.next, <<"[">> \o m.v \o <<"]">>)
                      ELSE NoParse
    ELSE IF t[i] = "\""
    THEN LET j == Find(t, <<"\"">>, i + 1)
         IN  IF j = 0 \/ Find(Slice(t, i, j), <<"\n">>, 1) # 0
             THEN NoParse
             ELSE ParsedTo(j + 1, Slice(t, i, j))
    ELSE IF t[i] \in Digits
    THEN LET j == SkipDigits(t, i)
         IN  ParsedTo(j, Slice(t, i, j - 1))
    ELSE NoParse

\* "key": value pairs from i (a key is expected there) to the closing brace
ParseMembers(t, i) ==
    IF i > Len(t) \/ t[i] # "\"" THEN NoParse
    ELSE LET k == ParseValue(t, i)
             c == IF k.ok THEN SkipWs(t, k.next) ELSE 0
             val == IF k.ok /\ c <= Len(t) /\ t[c] = ":"
                    THEN ParseValue(t, SkipWs(t, c + 1))
                    ELSE NoParse
             e == IF val.ok THEN SkipWs(t, val.next) ELSE 0
             head == k.v \o <<":">> \o val.v
         IN  IF ~val.ok \/ e > Len(t) THEN NoParse
             ELSE IF t[e] = "}" THEN ParsedTo(e + 1, head)
             ELSE IF t[e] = ","
             THEN LET m == ParseMembers(t, SkipWs(t, e + 1))
                  IN  IF m.ok THEN ParsedTo(m.next, head \o <<",">> \o m.v)
                      ELSE NoParse
             ELSE NoParse

\* values from i to the closing bracket
ParseElements(t, i) ==
    LET val == ParseValue(t, i)
        e == IF val.ok THEN SkipWs(t, val.next) ELSE 0
    IN  IF ~val.ok \/ e > Len(t) THEN NoParse
        ELSE IF t[e] = "]" THEN ParsedTo(e + 1, val.v)
        ELSE IF t[e] = ","
        THEN LET m == ParseElements(t, SkipWs(t, e + 1))
             IN  IF m.ok THEN ParsedTo(m.next, val.v \o <<",">> \o m.v)
                 ELSE NoParse
        ELSE NoParse

\* json.loads(t): the value, or JSONDecodeError
JSONDecodeError == [raised |-> TRUE, v |-> <<>>]
Value(val) == [raised |-> FALSE, v |-> val]
json_loads(t) ==
    LET r == ParseValue(t, SkipWs(t, 1))
    IN  IF r.ok /\ SkipWs(t, r.next) = Len(t) + 1
        THEN Value(r.v)
        ELSE JSONDecodeError

\* isinstance(x, dict) for a parsed value
IsMapping(val) == Len(val) > 0 /\ val[1] = "{"
\* {}
EMPTY_OBJECT == <<"{", "}">>

\* The fence and its json tag.
FENCE == <<TICK, TICK, TICK>>
FENCE_JSON == FENCE \o <<"j", "s", "o", "n">>
QUOTE == <<"\"">>
APOSTROPHE == <<"'">>

\* One match of a pattern of repair_json at position i: where it ends and
\* what re.sub writes in its place.
NoMatch == [hit |-> FALSE, end |-> 0, out |-> <<>>]
Hit(e, o) == [hit |-> TRUE, end |-> e, out |-> o]

\* r'//.*$' with re.MULTILINE: from the two slashes to the end of the line
LineComment(t, i) ==
    IF At(t, i, <<"/", "/">>)
    THEN LET n == Find(t, <<"\n">>, i + 2)
         IN  Hit(IF n = 0 THEN Len(t) + 1 ELSE n, <<>>)
    ELSE NoMatch

\* r'/\*.*?\*/' with re.DOTALL: to the nearest closing mark
BlockComment(t, i) ==
    IF At(t, i, <<"/", "*">>)
    THEN LET j == Find(t, <<"*", "/">>, i + 2)
         IN  IF j = 0 THEN NoMatch ELSE Hit(j + 2, <<>>)
    ELSE NoMatch

\* r',\s*([}\]])' -> r'\1'
CommaBeforeClose(t, i) ==
    IF t[i] = ","
    THEN LET j == SkipWs(t, i + 1)
         IN  IF j <= Len(t) /\ t[j] \in {"}", "]"}
             THEN Hit(j + 1, <<t[j]>>)
             ELSE NoMatch
    ELSE NoMatch

\* r'([{\[])\s*,' -> r'\1'
CommaAfterOpen(t, i) ==
    IF t[i] \in {"{", "["}
    THEN LET j == SkipWs(t, i + 1)
         IN  IF j <= Len(t) /\ t[j] = "," THEN Hit(j + 1, <<t[i]>>)
             ELSE NoMatch
    ELSE NoMatch

\* r'\n\s*"[^"]*"\s*:\s*(?=[}\]])': a key without a value before a closer
DanglingKey(t, i) ==
    IF t[i] = "\n"
    THEN LET j == SkipWs(t, i + 1)
             q == IF j <= Len(t) /\ t[j] = "\"" THEN Find(t, QUOTE, j + 1)
                  ELSE 0
             c == IF q # 0 THEN SkipWs(t, q + 1) ELSE 0
             e == IF c # 0 /\ c <= Len(t) /\ t[c] = ":"
                  THEN SkipWs(t, c + 1) ELSE 0
         IN  IF e # 0 /\ e <= Len(t) /\ t[e] \in {"}", "]"}
             THEN Hit(e, <<>>)
             ELSE NoMatch
    ELSE NoMatch

\* The shape quoted : quoted of the next two patterns, for the quote mark
\* qm: the two quoted parts, or no match.
Pair(t, i, qm) ==
    IF At(t, i, qm)
    THEN LET j == Find(t, qm, i + 1)
             c == IF j # 0 THEN SkipWs(t, j + 1) ELSE 0
             k == IF c # 0 /\ c <= Len(t) /\ t[c] = ":"
                  THEN SkipWs(t, c + 1) ELSE 0
             q == IF k # 0 /\ At(t, k, qm) THEN Find(t, qm, k + 1) ELSE 0
         IN  IF q # 0
             THEN [hit |-> TRUE, end |-> q + 1, key |-> Slice(t, i, j),
                   val |-> Slice(t, k + 1, q - 1)]
             ELSE [hit |-> FALSE, end |-> 0, key |-> <<>>, val |-> <<>>]
    ELSE [hit |-> FALSE, end |-> 0, key |-> <<>>, val |-> <<>>]

\* r'("[^"]*")\s*:\s*"([^"]*)\s*"' -> r'\1: "\2"'
StringPair(t, i) ==
    LET p == Pair(t, i, QUOTE)
    IN  IF p.hit
        THEN Hit(p.end, p.key \o <<":", " ">> \o QUOTE \o p.val \o QUOTE)
        ELSE NoMatch

\* r"('[^']*')\s*:\s*'([^']*)'" -> r'"\1": "\2"'
ApostrophePair(t, i) ==
    LET p == Pair(t, i, APOSTROPHE)
    IN  IF p.hit
        THEN Hit(p.end, QUOTE \o p.key \o QUOTE \o <<":", " ">>
                           \o QUOTE \o p.val \o QUOTE)
        ELSE NoMatch

\* r'^\s*```json\s*'
FenceJsonStart(t, i) ==
    LET j == SkipWs(t, 1)
    IN  IF i = 1 /\ At(t, j, FENCE_JSON)
        THEN Hit(SkipWs(t, j + Len(FENCE_JSON)), <<>>)
        ELSE NoMatch

\* r'^\s*```\s*'
FenceStart(t, i) ==
    LET j == SkipWs(t, 1)
    IN  IF i = 1 /\ At(t, j, FENCE)
        THEN Hit(SkipWs(t, j + Len(FENCE)), <<>>)
        ELSE NoMatch

\* r'\s*```\s*$'
FenceEnd(t, i) ==
    LET j == SkipWs(t, i)
    IN  IF At(t, j, FENCE) /\ SkipWs(t, j + Len(FENCE)) = Len(t) + 1
        THEN Hit(Len(t) + 1, <<>>)
        ELSE NoMatch

Match(pattern, t, i) ==
    CASE pattern = "line_comment" -> LineComment(t, i)
      [] pattern = "block_comment" -> BlockComment(t, i)
      [] pattern = "comma_close" -> CommaBeforeClose(t, i)
      [] pattern = "open_comma" -> CommaAfterOpen(t, i)
      [] pattern = "dangling_key" -> DanglingKey(t, i)
      [] pattern = "string_pair" -> StringPair(t, i)
      [] pattern = "apostrophe_pair" -> ApostrophePair(t, i)
      [] pattern = "fence_json_start" -> FenceJsonStart(t, i)
      [] pattern = "fence_start" -> FenceStart(t, i)
      [] pattern = "fence_end" -> FenceEnd(t, i)

\* re.sub(pattern, replacement, t): the leftmost match, then the leftmost
\* one after it, and so on; no pattern here matches the empty text.
RECURSIVE Sub(_, _, _)
Sub(pattern, t, i) ==
    IF i > Len(t) THEN <<>>
    ELSE LET m == Match(pattern, t, i)
         IN  IF m.hit THEN m.out \o Sub(pattern, t, m.end)
             ELSE <<t[i]>> \o Sub(pattern, t, i + 1)

\* repair_json: the substitutions in the order of the code
RepairSteps ==
    <<"line_comment", "block_comment", "comma_close", "open_comma",
      "dangling_key", "string_pair", "apostrophe_pair", "fence_json_start",
      "fence_end", "fence_start", "fence_end">>

RECURSIVE ApplySteps(_, _, _)
ApplySteps(steps, t, n) ==
    IF n > Len(steps) THEN t
    ELSE ApplySteps(steps, Sub(steps[n], t, 1), n + 1)

repair_json(t) == strip(ApplySteps(RepairSteps, strip(t), 1))

\* re.search(r'(\{[\s\S]*\})', t): from the first opening brace to the last
\* closing one, <<>> when there is no such span
BraceSpan(t) ==
    LET a == Find(t, <<"{">>, 1)
        b == FindLast(t, <<"}">>, Len(t))
    IN  IF a # 0 /\ b > a THEN Slice(t, a, b) ELSE <<>>

\* extract_json_from_text: what it returns (raised is never set: the only
\* exception of json.loads on a str, JSONDecodeError, is caught twice)
extract_json_from_text(t) ==
    LET text1 == repair_json(strip(t))
        first == json_loads(text1)
        span == BraceSpan(text1)
        second == json_loads(span)
    IN  IF ~first.raised THEN first
        ELSE IF span # <<>> /\ ~second.raised THEN second
        ELSE Value(EMPTY_OBJECT)

\* StructuringAgent._extract_json
extract_json(t) ==
    LET t0 == strip(t)
        t1 == IF startswith(t0, FENCE_JSON)
              THEN From(t0, Len(FENCE_JSON) + 1) ELSE t0
        t2 == IF startswith(t1, FENCE) THEN From(t1, Len(FENCE) + 1) ELSE t1
        t3 == IF endswith(t2, FENCE)
              THEN Slice(t2, 1, Len(t2) - Len(FENCE)) ELSE t2
    IN  strip(t3)

\* StructuringAgent.process, lines 89-90: the simple policy
simple_policy(t) == json_loads(extract_json(t))

\* ----------------------------------------------------- texts to extract from
\* json.dumps of an object whose i-th member has the key Keys[i] and the
\* value text vals[i]
Keys == <<"a", "b", "n">>
RECURSIVE Members(_, _)
Members(vals, i) ==
    IF i > Len(vals) THEN <<>>
    ELSE (IF i > 1 THEN <<",", " ">> ELSE <<>>)
         \o QUOTE \o <<Keys[i]>> \o QUOTE \o <<":", " ">> \o vals[i]
         \o Members(vals, i + 1)
ObjectText(vals) == <<"{">> \o Members(vals, 1) \o <<"}">>

\* A JSON string of the given characters.
Str(chars) == QUOTE \o chars \o QUOTE

\* Value texts: a number, an array, and strings that hold a word, the two
\* comment marks, a comma before a closer and an apostrophe pair.
ValueTexts ==
    {<<"1">>, <<"[", "1", "]">>, Str(<<"b">>), Str(<<"/", "/">>),
     Str(<<"/", "*", "*", "/">>), Str(<<",", "}">>),
     Str(<<"'", "b", "'", ":", "'", "a", "'">>)}

\* Valid JSON objects of at most MaxMembers members.
Objects ==
    {ObjectText(vals) :
        vals \in UNION {[1..n -> ValueTexts] : n \in 0..MaxMembers}}

\* Texts that are no JSON object: other JSON values, and texts that are no
\* JSON at all, with and without braces.
NonObjects ==
    {<<"1">>, <<"[", "1", "]">>, Str(<<"a">>), <<>>, <<"a">>, <<"{">>,
     <<"}", "{">>, <<"a", " ", "{", "}", " ", "b">>, <<"{", "a", "}">>}

Documents == Objects \cup NonObjects

\* A fenced block around doc, with the given language tag.
Tags == {<<>>, <<"j", "s", "o", "n">>, <<"j", "s">>}
Fenced(doc, tag) == FENCE \o tag \o <<"\n">> \o doc \o <<"\n">> \o FENCE

\* The positions of doc that hold a closing brace or bracket outside a
\* string (no text here has an escaped quote).
Quotes(t, i) == Cardinality({j \in 1..(i - 1) : t[j] = "\""})
CloserPositions(doc) ==
    {i \in 1..Len(doc) : doc[i] \in {"}", "]"} /\ Quotes(doc, i) % 2 = 0}
\* doc with a comma inserted immediately before position i
InsertComma(doc, i) ==
    Slice(doc, 1, i - 1) \o <<",">> \o Slice(doc, i, Len(doc))

\* How a text was made from a document.
Plain(doc) == [doc |-> doc, how |-> "plain", tag |-> <<>>, at |-> 0]
InFence(doc, tag) == [doc |-> doc, how |-> "fence", tag |-> tag, at |-> 0]
WithComma(doc, i) == [doc |-> doc, how |-> "comma", tag |-> <<>>, at |-> i]
Origins ==
    {Plain(doc) : doc \in Documents}
        \cup {InFence(doc, tag) : doc \in Documents, tag \in Tags}
        \cup UNION {{WithComma(doc, i) : i \in CloserPositions(doc)} :
                       doc \in Documents}
TextOf(o) ==
    IF o.how = "fence" THEN Fenced(o.doc, o.tag)
    ELSE IF o.how = "comma" THEN InsertComma(o.doc, o.at)
    ELSE o.doc

\* What an extraction gave: not run yet, an exception, or a value.
NotRun == [done |-> FALSE, raised |-> FALSE, v |-> <<>>]
Ran(r) == [done |-> TRUE, raised |-> r.raised, v |-> r.v]

\* No text is involved in a run of the drivers.
NoText ==
    /\ content = <<>>
    /\ origin = Plain(<<>>)
    /\ simple = NotRun
    /\ repair = NotRun

\* StructuringAgent.process, lines 89-90, on the content text
structuring_extract ==
    /\ mode = "text"
    /\ ~simple.done
    /\ simple' = Ran(simple_policy(content))
    /\ UNCHANGED <<content, origin, repair>>
    /\ UNCHANGED <<mode, storage, pc, result, stage, attempt, state,
                   checkpoints, final, events, dsleeps, agent_input,
                   running, called, invoked, exch, netonly, faults,
                   snapshots, loaded, announced, websocket, senderrors,
                   ocr, exit_status>>
    /\ UNCHANGED clientVars

\* LayoutAgent.process, line 102, on the content text
layout_extract ==
    /\ mode = "text"
    /\ ~repair.done
    /\ repair' = Ran(extract_json_from_text(content))
    /\ UNCHANGED <<content, origin, simple>>
    /\ UNCHANGED <<mode, storage, pc, result, stage, attempt, state,
                   checkpoints, final, events, dsleeps, agent_input,
                   running, called, invoked, exch, netonly, faults,
                   snapshots, loaded, announced, websocket, senderrors,
                   ocr, exit_status>>
    /\ UNCHANGED clientVars

\* ------------------------------------------------------------ specifications
InitCommon ==
    /\ result = "none"
    /\ stage = 0
    /\ attempt = 0
    /\ state = PipelineState
    /\ checkpoints = <<>>
    /\ final = {}
    /\ events = <<>>
    /\ cattempt = 0
    /\ sleeps = <<>>
    /\ callret = NoRet
    /\ dsleeps = <<>>
    /\ agent_input = [whole |-> FALSE, v |-> 0]
    /\ running = {}
    /\ called = {}
    /\ invoked = 0
    /\ exch = 0
    /\ nfail = 0
    /\ ncalls = 0
    /\ netonly = TRUE
    /\ last = NoOutcome
    /\ faults = 0
    /\ snapshots = <<>>
    /\ loaded = <<>>
    /\ announced = <<>>
    /\ senderrors = 0
    /\ ocr = "none"
    /\ exit_status = <<>>

\* A driver freshly constructed: Orchestrator(output_dir) with or without a
\* storage root, or PipelineRunner(job_id, pdf_path).
Init ==
    /\ mode \in {"cli", "server"}
    /\ storage \in (IF mode = "cli" THEN {"dir", "none"} ELSE {"dir"})
    /\ pc = IF mode = "cli" THEN "init" ELSE "srv_start"
    /\ websocket \in (IF mode = "server" THEN BOOLEAN ELSE {FALSE})
    /\ max_retries = MAX_RETRIES
    /\ InitCommon
    /\ NoText

Next ==
    \/ \E readok, wok \in BOOLEAN : initialize(readok, wok)
    \/ run_pipeline_next
    \/ execute_agent_attempt
    \/ \E o \in Outcomes : call_with_retry(o)
    \/ \E wok, mok \in BOOLEAN : execute_agent_result(wok, mok)
    \/ \E fok \in BOOLEAN : run_pipeline_failed(fok)
    \/ \E nok \in 0..Len(FINAL_FILES) : run_pipeline_finish(nok)
    \/ \E f \in CheckpointNames : load_from_checkpoint(f)
    \/ \E lost \in Losses(websocket) : srv_start(lost)
    \/ \E o \in {"ok", "fail", "raise"}, readok \in BOOLEAN,
          lost \in Losses(websocket) :
           srv_ocr_done(o, readok, lost)
    \/ \E wok, fok, mok \in BOOLEAN, lost \in Losses(websocket) :
           srv_agent_result(wok, fok, mok, lost)

Spec == Init /\ [][Next]_vars

\* ------------------------------------------------------- run_pipeline.py
\* show_summary(orchestrator.state) reads state.source_file,
\* state.output_dir, state.completed_agents, state.errors: reading an
\* attribute the dataclass does not have raises AttributeError.
\* PipelineStateAttributes: every field the dataclass declares.
PipelineStateAttributes ==
    {"source_file", "current_agent", "checkpoint_file", "retry_count",
     "errors", "completed_agents", "raw_text", "structured_v0",
     "structured_v1", "db_ready", "review_report", "created_at",
     "updated_at", "to_dict", "from_dict"}
SummaryAttributes ==
    {"source_file", "output_dir", "completed_agents", "errors"}
show_summary_raises == ~(SummaryAttributes \subseteq PipelineStateAttributes)

\* The status of the process when main ends by an uncaught exception.
UNCAUGHT == 1

\* pdf_to_markdown as main sees it.  "ok": every page converted, the
\* markdown file written, True returned; "partial": some page failed, the
\* file written with the other pages, False returned; "missing": the pdf
\* does not exist, False returned and nothing written; "raised": opening the
\* document or writing the file raised.  main discards the returned value.
OcrOutcomes == {"ok", "partial", "missing", "raised"}
OcrWritesFile(o) == o \in {"ok", "partial"}
pdf_to_markdown(o) == o = "ok"

\* main, from the parsing of the arguments to the construction of the
\* Orchestrator.  reset, skip_ocr: the two flags; pdf: whether the input has
\* the suffix .pdf; o: the outcome of pdf_to_markdown; had_md: whether the
\* markdown file was there before the run.
main_start(reset, skip_ocr, pdf, o, had_md) ==
    /\ mode = "cli"
    /\ pc = "main"
    /\ IF reset
       THEN /\ ocr' = "reset"
            /\ exit_status' = <<0>>
            /\ pc' = "exited"
       ELSE IF ~skip_ocr /\ ~pdf
       THEN /\ ocr' = "unsupported"
            /\ exit_status' = <<1>>
            /\ pc' = "exited"
       ELSE IF ~skip_ocr /\ o = "raised"
       THEN /\ ocr' = "raised"
            /\ exit_status' = <<UNCAUGHT>>
            /\ pc' = "exited"
       ELSE LET md_exists == had_md \/ (~skip_ocr /\ OcrWritesFile(o))
            IN  /\ ocr' = IF skip_ocr THEN "skipped" ELSE o
                /\ IF ~md_exists
                   THEN /\ exit_status' = <<1>>
                        /\ pc' = "exited"
                   ELSE /\ exit_status' = <<>>
                        /\ pc' = "init"
    /\ UNCHANGED <<loaded, faults, mode, storage, result, stage, attempt,
                   state, checkpoints, snapshots, final, events, dsleeps,
                   agent_input, running, called, invoked, exch, netonly,
                   announced, websocket, senderrors>>
    /\ UNCHANGED clientVars
    /\ UNCHANGED textVars

\* main, from the return of initialize or run_pipeline to the end of the
\* process; an exception that initialize, run_pipeline or show_summary
\* raised is caught nowhere.
main_exit ==
    /\ mode = "cli"
    /\ ocr # "none"
    /\ exit_status = <<>>
    /\ pc \in {"init_failed", "crashed", "done"}
    /\ exit_status' =
          IF pc = "init_failed" THEN <<1>>
          ELSE IF pc = "crashed" \/ result = "raised" THEN <<UNCAUGHT>>
          ELSE IF result = "true"
          THEN (IF show_summary_raises THEN <<UNCAUGHT>> ELSE <<0>>)
          ELSE <<1>>
    /\ pc' = "exited"
    /\ UNCHANGED <<loaded, faults, mode, storage, result, stage, attempt,
                   state, checkpoints, snapshots, final, events, dsleeps,
                   agent_input, running, called, invoked, exch, netonly,
                   announced, websocket, senderrors, ocr>>
    /\ UNCHANGED clientVars
    /\ UNCHANGED textVars

\* python run_pipeline.py: main builds Orchestrator(output_dir).
InitMain ==
    /\ mode = "cli"
    /\ storage = "dir"
    /\ pc = "main"
    /\ websocket = FALSE
    /\ max_retries = MAX_RETRIES
    /\ InitCommon
    /\ NoText

NextMain ==
    \/ \E reset, skip_ocr, pdf, had_md \in BOOLEAN, o \in OcrOutcomes :
           main_start(reset, skip_ocr, pdf, o, had_md)
    \/ \E readok, wok \in BOOLEAN : initialize(readok, wok)
    \/ run_pipeline_next
    \/ execute_agent_attempt
    \/ \E o \in Outcomes : call_with_retry(o)
    \/ \E wok, mok \in BOOLEAN : execute_agent_result(wok, mok)
    \/ \E fok \in BOOLEAN : run_pipeline_failed(fok)
    \/ \E nok \in 0..Len(FINAL_FILES) : run_pipeline_finish(nok)
    \/ main_exit

SpecMain == InitMain /\ [][NextMain]_vars

\* run_pipeline called on the Orchestrator after load_from_checkpoint: the
\* loop "for agent_name in AGENT_ORDER" starts at the first stage whatever
\* the state holds.
run_pipeline_resumed ==
    /\ mode = "cli"
    /\ pc = "loaded"
    /\ stage' = 1
    /\ pc' = "loop"
    /\ UNCHANGED <<loaded, faults, mode, storage, result, attempt, state,
                   checkpoints, snapshots, final, events, dsleeps,
                   agent_input, running, called, invoked, exch, netonly,
                   announced, websocket, senderrors, ocr, exit_status>>
    /\ UNCHANGED clientVars
    /\ UNCHANGED textVars

\* What the exchanges of the resume scenario do: a network failure, a reply
\* that is no JSON, or a valid object that carries the success marker.
ResumeOutcomes ==
    {o \in Outcomes :
        \/ o.status = "net"
        \/ o.status = "ok" /\ o.reply.kind = "garbage"
        \/ /\ o.status = "ok"
           /\ o.reply.kind = "object"
           /\ o.reply.fmt
           /\ o.reply.marker = "true"}

\* An Orchestrator with a storage root that is initialized, run, handed a
\* checkpoint and run again; every write succeeds.
InitResume ==
    /\ mode = "cli"
    /\ storage = "dir"
    /\ pc = "init"
    /\ websocket = FALSE
    /\ max_retries = MAX_RETRIES
    /\ InitCommon
    /\ NoText

NextResume ==
    \/ \E readok \in BOOLEAN : initialize(readok, TRUE)
    \/ run_pipeline_next
    \/ execute_agent_attempt
    \/ \E o \in ResumeOutcomes : call_with_retry(o)
    \/ execute_agent_result(TRUE, TRUE)
    \/ run_pipeline_failed(TRUE)
    \/ run_pipeline_finish(Len(FINAL_FILES))
    \/ \E f \in CheckpointNames :
           Len(loaded) < MaxLoads /\ load_from_checkpoint(f)
    \/ run_pipeline_resumed

SpecResume == InitResume /\ [][NextResume]_vars

\* initialize and run_pipeline of one Orchestrator, every step that is
\* enabled being taken eventually: each exchange returns or fails, each
\* write returns or raises.
InitRun ==
    /\ mode = "cli"
    /\ storage \in {"dir", "none"}
    /\ pc = "init"
    /\ websocket = FALSE
    /\ max_retries = MAX_RETRIES
    /\ InitCommon
    /\ NoText

NextRun ==
    \/ \E readok, wok \in BOOLEAN : initialize(readok, wok)
    \/ run_pipeline_next
    \/ execute_agent_attempt
    \/ \E o \in Outcomes : call_with_retry(o)
    \/ \E wok, mok \in BOOLEAN : execute_agent_result(wok, mok)
    \/ \E fok \in BOOLEAN : run_pipeline_failed(fok)
    \/ \E nok \in 0..Len(FINAL_FILES) : run_pipeline_finish(nok)

SpecRun == InitRun /\ [][NextRun]_vars /\ WF_vars(NextRun)

\* The two extraction policies on one content text.
InitText ==
    /\ mode = "text"
    /\ storage = "dir"
    /\ pc = "text"
    /\ websocket = FALSE
    /\ max_retries = MAX_RETRIES
    /\ InitCommon
    /\ origin \in Origins
    /\ content = TextOf(origin)
    /\ simple = NotRun
    /\ repair = NotRun

NextText ==
    \/ structuring_extract
    \/ layout_extract

SpecText == InitText /\ [][NextText]_vars

\* call_with_retry on its own, called with max_retries = arg (0: not given).
InitClient ==
    /\ mode = "client"
    /\ storage = "dir"
    /\ websocket = FALSE
    /\ pc = "call"
    /\ InitCommon
    /\ NoText
    /\ \E arg \in 0..MaxRetriesArg : max_retries = EffectiveRetries(arg)

NextClient == \E o \in Outcomes : call_with_retry(o)

SpecClient == InitClient /\ [][NextClient]_vars

\* ------------------------------------------------------------------ helpers
Range(q) == {q[i] : i \in DOMAIN q}
Prefix(k) == SubSeq(AGENT_ORDER, 1, k)
Output(s, k) == s[OUTPUT_FIELD[k]]

\* Stages that failed permanently: the CLI driver records "Agent '<k>'
\* failed" in errors, the server driver emits step_error for the stage.
FailedStages ==
    {k \in Stages :
        \/ ErrFailed(k) \in Range(state.errors)
        \/ Ev("step_error", AGENT_ORDER[k]) \in Range(events)}

\* ------------------------------------------------------------------- claims

\* C1: in CLI mode, when run_pipeline returns True completed_agents is the
\* whole AGENT_ORDER; when it returns False because the stage under
\* execution failed, completed_agents is exactly the names of the stages
\* before it and errors is not empty.
C1_StageOrdering ==
    mode = "cli" =>
        /\ (result = "true" => state.completed_agents = AGENT_ORDER)
        /\ (result = "false" =>
                /\ stage \in Stages
                /\ state.completed_agents = Prefix(stage - 1)
                /\ Len(state.errors) > 0)

C1_Witness ==
    /\ mode = "cli"
    /\ result = "false"
    /\ stage = 3
    /\ state.completed_agents = <<"structuring", "normalization">>

\* C2: in both modes, once a stage has failed permanently no later stage's
\* agent is ever invoked, and the run does not end in success.
C2_NoLaterStage ==
    \A k \in FailedStages :
        /\ \A j \in Stages : j > k => j \notin called
        /\ result # "true"

C2_Witness ==
    /\ mode = "server"
    /\ result = "false"
    /\ FailedStages = {2}
    /\ called = {1, 2}

\* C3: in every state of a run started by initialize, completed_agents is a
\* duplicate-free prefix of AGENT_ORDER and every stage named in it has a
\* non-empty output in PipelineState whose success marker is true.
C3_CompletedPrefix ==
    mode = "cli" =>
        /\ Len(state.completed_agents) <= NumStages
        /\ state.completed_agents = Prefix(Len(state.completed_agents))
        /\ \A k \in 1..Len(state.completed_agents) :
               /\ ~Output(state, k).empty
               /\ Output(state, k).success = TRUE

C3_Witness ==
    /\ mode = "cli"
    /\ state.completed_agents = AGENT_ORDER
    /\ Len(state.errors) > 0

\* C4: in both modes at most one stage agent is executing at any time; a
\* stage after the first is invoked only when the output of the stage before
\* it is in PipelineState with a true success marker, and while its agent
\* executes the input it was handed is that output (the raw text for the
\* first stage).
C4_Sequential ==
    /\ Cardinality(running) <= 1
    /\ \A k \in called :
           k > 1 => /\ ~Output(state, k - 1).empty
                    /\ Output(state, k - 1).success = TRUE
                    /\ k - 1 \in called
    /\ \A k \in running :
           agent_input.v =
               IF k = 1 THEN state.raw_text ELSE Output(state, k - 1).data

C4_Witness ==
    /\ mode = "server"
    /\ running = {3}
    /\ pc = "call"
    /\ state.structured_v0.data # state.structured_v1.data

\* C5: in CLI mode a stage whose every attempt fails is invoked exactly
\* MAX_RETRIES times before the run gives up, and a stage is invoked no more
\* once one of its attempts has passed validation: no attempt is pending or
\* under way for a stage whose validated result is already in PipelineState.
C5_StageAttempts ==
    mode = "cli" =>
        /\ (pc = "failed" => invoked = MAX_RETRIES)
        /\ (pc \in {"attempt", "call", "returned", "failed"} =>
                Output(state, stage).empty)

\* C6: in CLI mode, when call_with_retry gives up on network failures it has
\* issued exactly its budget of exchanges, the stage attempt it belongs to
\* fails, and that costs one stage attempt: the stage is attempted again
\* unless this was its last attempt.  A stage whose every exchange is a
\* network failure has issued MAX_RETRIES exchanges per attempt, 9 when the
\* run halts.
C6_LayersCompose ==
    /\ [](mode = "cli" =>
            /\ (pc = "returned" /\ callret.error = "net" =>
                    /\ ncalls = MAX_RETRIES
                    /\ ~Validated(process(stage, callret)))
            /\ (netonly /\ pc = "attempt" => exch = MAX_RETRIES * attempt)
            /\ (netonly /\ pc = "failed" =>
                    exch = MAX_RETRIES * MAX_RETRIES))
    /\ [][mode = "cli" /\ pc = "returned" /\ callret.error = "net" =>
            /\ UNCHANGED <<stage, exch>>
            /\ state'.completed_agents = state.completed_agents
            /\ IF attempt < MAX_RETRIES - 1
               THEN pc' = "attempt" /\ attempt' = attempt + 1
               ELSE pc' = "failed" /\ attempt' = attempt]_vars

C6_Witness ==
    /\ mode = "cli"
    /\ pc = "failed"
    /\ netonly
    /\ exch = 9
    /\ stage = 2

\* C7: call_with_retry never raises and returns either (response, None) or
\* (None, error text), never both and never neither; it never issues more
\* exchanges than its budget, and when every exchange is a network failure
\* it returns (None, error) after exactly max_retries exchanges.
C7_NeverRaises ==
    /\ ncalls <= max_retries
    /\ (pc = "returned" =>
            /\ ~callret.raised
            /\ \/ callret.error = "none" /\ callret.response \in Replies
               \/ callret.error # "none" /\ callret.response = NoReply
            /\ (nfail = ncalls =>
                    ncalls = max_retries /\ callret.error = "net"))

C7_Witness ==
    /\ mode = "client"
    /\ pc = "returned"
    /\ max_retries = 3
    /\ nfail = 3
    /\ ncalls = 3
    /\ callret.error = "net"

\* C8: while the exchanges of a call fail with network failures and the
\* budget is not used up the call goes on, sleeping once per failure; when
\* f < max_retries failures are followed by a successful exchange the call
\* returns that exchange's payload and no error after f sleeps and f + 1
\* exchanges.
C8_SuccessAfterFailures ==
    /\ (pc = "call" =>
            nfail = ncalls /\ Len(sleeps) = nfail /\ nfail < max_retries)
    /\ (pc = "returned" /\ last.status = "net" => nfail = max_retries)
    /\ (pc = "returned" /\ last.status = "ok" =>
            /\ callret.response = last.reply
            /\ callret.error = "none"
            /\ ~callret.raised
            /\ nfail < max_retries
            /\ Len(sleeps) = nfail
            /\ ncalls = nfail + 1)

C8_Witness ==
    /\ mode = "client"
    /\ pc = "returned"
    /\ max_retries = 5
    /\ nfail = 3
    /\ Len(sleeps) = 3
    /\ ncalls = 4
    /\ callret.error = "none"
    /\ callret.response.kind = "object"

\* C9: a 429, another status >= 400 (401 apart) and an empty body are
\* retried by call_with_retry: a terminal error of one of these kinds is
\* returned only after the whole budget of exchanges, with a backoff sleep
\* between them.
C9_RetryableStatuses ==
    pc = "returned" /\ callret.error \in {"s429", "s500", "empty_body"} =>
        /\ ncalls = max_retries
        /\ Len(sleeps) = max_retries - 1

\* C10: a 401 is not retried at any layer: once call_with_retry has
\* returned the authentication error the stage is not attempted again and
\* no further exchange is issued for it.
C10_AuthTerminal ==
    [][pc = "returned" /\ callret.error = "s401" =>
          /\ pc' \in {"failed", "done"}
          /\ exch' = exch]_vars

\* C11: no fault crosses the driver boundary: run_pipeline and
\* PipelineRunner.run always end by returning a boolean, never by raising,
\* whatever the generator, the agents and the writes do and with or without
\* a storage root.
C11_DriverNeverRaises ==
    /\ result # "raised"
    /\ (pc = "done" => result \in {"true", "false"})

\* C12: in CLI mode every failed stage attempt, whatever its cause, appends
\* a diagnostic to errors: the step that ends a failed attempt makes errors
\* longer by at least one entry.
C12_AttemptDiagnostic ==
    [][mode = "cli" /\ pc = "returned" /\ pc' \in {"attempt", "failed"} =>
          Len(state'.errors) >= Len(state.errors) + 1]_vars

\* C13: in both modes, when a run has returned failure because stage k
\* exhausted its attempts, the checkpoints area holds failed_<k>.json, a
\* name no success checkpoint has, and that file loads as a state whose
\* errors hold the failure diagnostic of stage k.
C13_FailureCheckpoint ==
    result = "false" =>
        \A k \in FailedStages :
            /\ FailedFile(k) \notin
                   {RAW_FILE} \cup {CHECKPOINT_FILES[j] : j \in Stages}
            /\ load_checkpoint(checkpoints, FailedFile(k)) # <<>>
            /\ ErrFailed(k) \in
                   Range(load_checkpoint(checkpoints, FailedFile(k))[1].errors)

\* C14: in CLI mode the success checkpoint of stage k is written after the
\* result was stored and the stage name appended: the file holds stage k's
\* output and names stage k in completed_agents.
C14_CheckpointAfterAppend ==
    mode = "cli" =>
        \A k \in Stages :
            CHECKPOINT_FILES[k] \in DOMAIN checkpoints =>
                LET s == load_checkpoint(checkpoints, CHECKPOINT_FILES[k])[1]
                IN  /\ ~Output(s, k).empty
                    /\ AGENT_ORDER[k] \in Range(s.completed_agents)

\* C15: in CLI mode the driver has slept the backoff computed after each
\* failed attempt before the next attempt of the stage starts: by attempt
\* n + 1 it has slept n times, 2 * 2^(i-1) seconds the i-th time.
C15_BackoffSlept ==
    mode = "cli" /\ pc \in {"attempt", "call", "returned", "failed"} =>
        /\ Len(dsleeps) = attempt
        /\ \A i \in DOMAIN dsleeps : dsleeps[i].secs = Backoff(i - 1)

\* C16: in server mode each stage's agent is invoked at most once per run;
\* when it fails the driver emits two retry logs, each followed by its
\* sleep (2s after the first, 4s after the second), then step_error, then
\* complete{success: false}, and returns False without invoking any agent
\* or issuing any exchange.
C16_NotifyAndDelay ==
    /\ [](mode = "server" =>
            /\ invoked <= 1
            /\ \A k \in Stages :
                   Cardinality({i \in DOMAIN events :
                       events[i] = Ev("step_start", AGENT_ORDER[k])}) <= 1)
    /\ [][mode = "server" /\ pc = "returned"
              /\ ~callret.raised /\ ~process(stage, callret).success =>
            /\ events' = events \o
                   <<Ev("log", "retry"), Ev("log", "retry"),
                     Ev("step_error", AGENT_ORDER[stage]),
                     Ev("complete", "failure")>>
            /\ dsleeps' = dsleeps \o
                   <<[secs |-> 2, after |-> Len(events) + 1],
                     [secs |-> 4, after |-> Len(events) + 2]>>
            /\ result' = "false"
            /\ pc' = "done"
            /\ UNCHANGED <<stage, called, invoked, exch, state>>]_vars

C16_Witness ==
    /\ mode = "server"
    /\ result = "false"
    /\ FailedStages = {3}
    /\ Len(dsleeps) = 2
    /\ called = {1, 2, 3}

\* C17: in server mode completed_agents is the whole AGENT_ORDER after a run
\* that returned True, and after a run that failed at stage k it is the
\* first k-1 names and errors is not empty.
C17_ServerBookkeeping ==
    mode = "server" =>
        /\ (result = "true" => state.completed_agents = AGENT_ORDER)
        /\ (result = "false" =>
                \A k \in FailedStages :
                    /\ state.completed_agents = Prefix(k - 1)
                    /\ Len(state.errors) > 0)

C19_AbsentCheckpoint ==
    /\ [](\A f \in CheckpointNames :
            f \notin DOMAIN checkpoints =>
                load_checkpoint(checkpoints, f) = <<>>)
    /\ [][loaded' # loaded =>
            (loaded'[Len(loaded')].file \notin DOMAIN checkpoints =>
                /\ loaded'[Len(loaded')].ret = FALSE
                /\ state' = state)]_vars

C19_Witness ==
    /\ pc = "loaded"
    /\ loaded # <<>>
    /\ ~loaded[1].ret
    /\ storage = "dir"
    /\ loaded[1].file \notin DOMAIN checkpoints
    /\ CHECKPOINT_FILES[1] \in DOMAIN checkpoints
    /\ ~state.structured_v0.empty

\* C20: in both modes the final area is written only when the run is over
\* and did not fail: it is empty while a stage is under way, can still be
\* retried or is still to come, and after a run that returned failure.
C20_FinalOnlyTerminal ==
    /\ (pc \in {"attempt", "call", "returned", "failed"} => final = {})
    /\ (pc = "loop" /\ stage <= NumStages => final = {})
    /\ (result = "false" => final = {})

\* C21: every non-empty stage output held in PipelineState carries a true
\* success marker, and a failed attempt (CLI: the attempt is retried or the
\* stage given up; server: the failure handler runs) leaves the four stage
\* outputs as they were.
C21_ValidatedOutputs ==
    /\ [](\A k \in Stages :
            ~Output(state, k).empty => Output(state, k).success = TRUE)
    /\ [][pc = "returned" /\
            \/ mode = "cli" /\ pc' \in {"attempt", "failed"}
            \/ mode = "server" /\ ~callret.raised
                               /\ ~process(stage, callret).success
          => \A k \in Stages : Output(state', k) = Output(state, k)]_vars

\* C22: a stage attempt whose parsed object lacks a success marker, or
\* carries one that is not true, is a failed attempt: its object is not
\* written into PipelineState, the stage is not recorded as completed, and
\* in CLI mode the stage is retried or given up.
C22_MarkerRequired ==
    [][/\ pc = "returned"
       /\ mode \in {"cli", "server"}
       /\ ~callret.raised
       /\ callret.error = "none"
       /\ callret.response.kind = "object"
       /\ callret.response.marker # "true"
       => /\ \A k \in Stages : Output(state', k) = Output(state, k)
          /\ state'.completed_agents = state.completed_agents
          /\ (mode = "cli" => pc' \in {"attempt", "failed"})
          /\ (mode = "server" => result' = "false")]_vars

\* C24: the delays call_with_retry sleeps before attempts 2, 3, 4, 5 are
\* 2, 4, 8, 16 seconds, strictly increasing, one per failed attempt that is
\* followed by another, and none after the last attempt.
C24_BackoffMonotone ==
    /\ \A i \in DOMAIN sleeps : i <= 4 => sleeps[i] = <<2, 4, 8, 16>>[i]
    /\ \A i, j \in DOMAIN sleeps : i < j => sleeps[i] < sleeps[j]
    /\ Len(sleeps) = cattempt
    /\ Len(sleeps) <= max_retries - 1
    /\ (pc = "returned" /\ callret.error = "net" =>
            Len(sleeps) = ncalls - 1)

C24_Witness ==
    /\ mode = "client"
    /\ pc = "returned"
    /\ max_retries = 5
    /\ ncalls = 5
    /\ sleeps = <<2, 4, 8, 16>>

\* C25 (as stated): at every layer that computes a backoff the delay before
\* attempt n >= 2 is INITIAL_BACKOFF * 2^(n-1).
C25_BackoffFormula ==
    /\ \A i \in DOMAIN sleeps : sleeps[i] = INITIAL_BACKOFF * Pow2(i)
    /\ \A i \in DOMAIN announced : announced[i] = INITIAL_BACKOFF * Pow2(i)
    /\ \A i \in DOMAIN dsleeps : dsleeps[i].secs = INITIAL_BACKOFF * Pow2(i)

\* C25 (amended): at every layer that computes a backoff (call_with_retry,
\* the CLI stage loop, the server failure handler) the delay before attempt
\* n >= 2 is INITIAL_BACKOFF * 2^(n-2): 2 before attempt 2, 4 before
\* attempt 3.
C25_BackoffExponent ==
    /\ \A i \in DOMAIN sleeps : sleeps[i] = INITIAL_BACKOFF * Pow2(i - 1)
    /\ \A i \in DOMAIN announced :
           announced[i] = INITIAL_BACKOFF * Pow2(i - 1)
    /\ \A i \in DOMAIN dsleeps :
           dsleeps[i].secs = INITIAL_BACKOFF * Pow2(i - 1)

C25_Witness ==
    /\ mode = "cli"
    /\ pc = "call"
    /\ announced = <<2, 4>>
    /\ sleeps = <<2, 4>>

\* C23: progress emission never affects control flow.  Every step of
\* PipelineRunner.run is also the step run takes with any other choice of
\* failing sends and with no websocket at all: same result, same agents
\* dispatched, same state, checkpoints and final files.  A failed send is
\* logged once (never sent again), nothing is logged without a websocket.
C23_EmitNoControlFlow ==
    /\ [](~websocket => senderrors = 0)
    /\ [][mode = "server" /\ pc \in {"srv_start", "ocr", "returned"}
          => /\ \/ \A ws2 \in BOOLEAN : \A lost2 \in Losses(ws2) :
                           srv_start_flow(ws2, lost2)
                \/ \E o \in {"ok", "fail", "raise"}, readok \in BOOLEAN :
                       \A ws2 \in BOOLEAN : \A lost2 \in Losses(ws2) :
                           srv_ocr_done_flow(o, readok, ws2, lost2)
                \/ \E wok, fok, mok \in BOOLEAN :
                       \A ws2 \in BOOLEAN : \A lost2 \in Losses(ws2) :
                           srv_agent_result_flow(wok, fok, mok, ws2, lost2)
             /\ senderrors' - senderrors <= Len(events') - Len(events)
             /\ senderrors' >= senderrors
             /\ websocket' = websocket]_vars

C23_Witness ==
    /\ mode = "server"
    /\ websocket
    /\ senderrors > 0
    /\ result = "true"
    /\ pc = "done"

\* C30: the entry point ends with status 0 exactly when the run fully
\* succeeds: the OCR step, when performed, converted every page, and the
\* four stages succeeded.  (A --reset invocation runs nothing and is left
\* out.)
C30_ExitStatus ==
    exit_status # <<>> /\ ocr # "reset" =>
        (exit_status = <<0>> <=>
            /\ ocr \in {"skipped", "ok"}
            /\ result = "true")

\* C26: extract_json_from_text never raises and returns a mapping: an
\* object parsed from the text, or the empty-object sentinel; it returns
\* the sentinel for every text that holds no brace-delimited span.
C26_ExtractorTotal ==
    repair.done =>
        /\ ~repair.raised
        /\ IsMapping(repair.v)
        /\ (BraceSpan(content) = <<>> => repair.v = EMPTY_OBJECT)

\* C27: on a text that is already a valid JSON object both policies return
\* the value a direct json.loads returns.
C27_CleanPassThrough ==
    origin.how = "plain" /\ origin.doc \in Objects =>
        /\ ~json_loads(content).raised
        /\ (simple.done => simple = Ran(json_loads(content)))
        /\ (repair.done => repair = Ran(json_loads(content)))

\* C28: on a valid JSON object with one comma inserted immediately before a
\* closing brace or bracket the repair policy returns the value of the
\* object as it was.
C28_TrailingComma ==
    origin.how = "comma" /\ origin.doc \in Objects /\ repair.done =>
        repair = Ran(json_loads(origin.doc))

\* C29: on a valid JSON object inside one fenced block, whatever its
\* language tag, both policies return the value of the object.
C29_FenceStripping ==
    origin.how = "fence" /\ origin.doc \in Objects =>
        /\ (simple.done => simple = Ran(json_loads(origin.doc)))
        /\ (repair.done => repair = Ran(json_loads(origin.doc)))

\* C31: during run_pipeline errors is append-only and raw_text, set by
\* initialize, is never modified: every step of the run (stage attempt,
\* retry, checkpoint write, give-up, final save) leaves the errors it found
\* as a prefix of the errors it leaves, and leaves raw_text as it was.
C31_ErrorsAppendOnly ==
    [][mode = "cli" /\ pc \in {"loop", "attempt", "call", "returned", "failed"}
          => /\ Len(state.errors) <= Len(state'.errors)
             /\ SubSeq(state'.errors, 1, Len(state.errors)) = state.errors
             /\ state'.raw_text = state.raw_text
             /\ state.raw_text = RAW_TEXT]_vars

C31_Witness ==
    /\ mode = "cli"
    /\ pc = "done"
    /\ result = "true"
    /\ Len(state.errors) >= 1
    /\ state.raw_text = RAW_TEXT
    /\ "structured_v0.json" \in DOMAIN checkpoints

\* C32: without a storage root checkpoint and final saves write nothing, and
\* a run whose four stages all succeed completes normally: run_pipeline
\* returns True with completed_agents equal to AGENT_ORDER.
C32_NoStorageRun ==
    mode = "cli" /\ storage = "none" =>
        /\ checkpoints = <<>>
        /\ final = {}
        /\ (pc = "done" /\ state.completed_agents = AGENT_ORDER =>
                result = "true")

\* C33: a run_pipeline that follows a successful load_from_checkpoint
\* continues from the first stage that is not completed: no attempt is
\* pending or under way for a stage whose validated output is in the state,
\* and completed_agents stays a duplicate-free prefix of AGENT_ORDER.
C33_Resume ==
    mode = "cli" /\ loaded # <<>> /\ loaded[Len(loaded)].ret =>
        /\ (pc \in {"attempt", "call", "returned"} =>
                Output(state, stage).empty)
        /\ Len(state.completed_agents) <= NumStages
        /\ state.completed_agents = Prefix(Len(state.completed_agents))

\* C34: when run_pipeline has returned, the output of stage k in
\* PipelineState is non-empty exactly when k is in completed_agents, and no
\* success checkpoint exists for a stage that is not completed: an attempt
\* counted as failed leaves its result neither in the state nor in a
\* success checkpoint.
C34_OutputsIffCompleted ==
    mode = "cli" /\ pc = "done" /\ result \in {"true", "false"} =>
        \A k \in Stages :
            /\ ~Output(state, k).empty <=>
                   AGENT_ORDER[k] \in Range(state.completed_agents)
            /\ AGENT_ORDER[k] \notin Range(state.completed_agents) =>
                   CHECKPOINT_FILES[k] \notin DOMAIN checkpoints

\* C35: in server mode a run that has returned has issued exactly one
\* terminal event (complete or error), and at any time: at most one terminal
\* event is issued, every step_complete and step_error follows the
\* step_start of its step, the step_start of a stage follows the
\* step_complete of the step before it, and no step event follows the
\* terminal event.
C35_EventOrder ==
    mode = "server" =>
        LET Steps == <<"ocr">> \o AGENT_ORDER
            Terminal == {i \in DOMAIN events :
                            events[i].event \in {"complete", "error"}}
            StepEvents == {"step_start", "step_complete", "step_error"}
        IN  /\ Cardinality(Terminal) <= 1
            /\ (pc = "done" => Cardinality(Terminal) = 1)
            /\ \A i \in DOMAIN events :
                   events[i].event \in {"step_complete", "step_error"} =>
                       \E j \in 1..(i - 1) :
                           events[j] = Ev("step_start", events[i].step)
            /\ \A k \in 2..Len(Steps) : \A i \in DOMAIN events :
                   events[i] = Ev("step_start", Steps[k]) =>
                       \E j \in 1..(i - 1) :
                           events[j] = Ev("step_complete", Steps[k - 1])
            /\ \A t \in Terminal : \A i \in DOMAIN events :
                   i > t => events[i].event \notin StepEvents

C35_Witness ==
    /\ mode = "server"
    /\ pc = "done"
    /\ result = "false"
    /\ events[Len(events)] = Ev("error", "run")
    /\ \E i \in DOMAIN events : events[i] = Ev("step_complete", "normalization")

\* C36: run_pipeline, once started, always terminates with a result of True
\* or False; no stage is attempted more than MAX_RETRIES times nor issues
\* more than MAX_RETRIES * MAX_RETRIES exchanges, and the loop passes each
\* of the four stages once, in order (12 attempts and 36 exchanges at most).
C36_Termination ==
    /\ (pc = "loop") ~> (pc = "done" /\ result \in {"true", "false"})
    /\ [](/\ invoked <= MAX_RETRIES
          /\ exch <= MAX_RETRIES * MAX_RETRIES
          /\ stage <= NumStages + 1
          /\ NumStages * MAX_RETRIES = 12
          /\ NumStages * MAX_RETRIES * MAX_RETRIES = 36)
    /\ [][stage' >= stage /\ (stage' # stage => stage' = stage + 1)]_vars

====
